---- MODULE Spec2Model ----
(***************************************************************************)
(* A model of tmgstrmli.py: the option-chain table builders, the OTM       *)
(* strike selection, the OI-decay filter, the IV spike/crush highlighting  *)
(* and the single- and multi-symbol scan of the dashboard.                 *)
(*                                                                         *)
(* Prices, strikes and percentages are integers here (the code uses        *)
(* floats); NaN, None and unparseable strings are kept as separate values. *)
(***************************************************************************)
EXTENDS Integers, Sequences, FiniteSets, TLC

\* ------------------------------------------------------------------ bounds
\* Strikes of the modelled chains are 1..MaxStrike.
MaxStrike == 3
\* A chain table handed to get_otm_strikes has at most MaxRows rows.
MaxRows == 3
\* A provider payload has at most MaxItems records.
MaxItems == 2
\* At most MaxSyms symbols are selected for a scan.
MaxSyms == 2
\* OI-change percentages are -MaxDecay..0, decay thresholds -MaxDecay..-1.
MaxDecay == 2
\* IV values and IV thresholds are 0..MaxIV.
MaxIV == 3
\* The calls of fetch_oc_json in a run
MaxCalls == 3

\* ------------------------------------------------------- Python values
\* A Python value is [t |-> tag, v |-> payload]: None, a number, a numeric
\* string ("12"), a non-numeric non-empty string ("-"), float nan, a dict
\* (v is a function from its keys), an expiry date string, a list (v is the
\* sequence of its items).
PyNone == [t |-> "none", v |-> 0]
NaN == [t |-> "nan", v |-> 0]
PyBad == [t |-> "str", v |-> 0]
PyNum(n) == [t |-> "num", v |-> n]
PyNumStr(n) == [t |-> "numstr", v |-> n]
PyDate(n) == [t |-> "date", v |-> n]
PyDict(f) == [t |-> "dict", v |-> f]
PyText(str) == [t |-> "text", v |-> str]
PyList(s) == [t |-> "list", v |-> s]
EmptyDict == PyDict(<<>>)

\* Python truthiness, as used by `a or b` and `if x:`.
Truthy(x) ==
    CASE x.t = "none" -> FALSE
      [] x.t = "num" -> x.v # 0
      [] x.t = "dict" -> DOMAIN x.v # {}
      [] x.t = "list" -> x.v # <<>>
      [] OTHER -> TRUE

\* a or b
PyOr(a, b) == IF Truthy(a) THEN a ELSE b

\* o.get(k) on a dict value
DictGet(o, k) == IF k \in DOMAIN o.v THEN o.v[k] ELSE PyNone

\* float(x): [ok |-> FALSE] stands for the ValueError/TypeError raised.
PyFloat(x) ==
    CASE x.t = "num" -> [ok |-> TRUE, val |-> PyNum(x.v)]
      [] x.t = "numstr" -> [ok |-> TRUE, val |-> PyNum(x.v)]
      [] x.t = "nan" -> [ok |-> TRUE, val |-> NaN]
      [] OTHER -> [ok |-> FALSE, val |-> NaN]

\* pd.to_numeric(x, errors="coerce") on one cell
ToNumeric(x) ==
    CASE x.t = "num" -> PyNum(x.v)
      [] x.t = "numstr" -> PyNum(x.v)
      [] OTHER -> NaN

\* pd.notna on one cell
NotNa(x) == x.t = "num"

\* A slip in x > y: x >= y.
CellGt_orEqual(x, y) == x.t = "num" /\ y.t = "num" /\ x.v >= y.v

\* x <= y, x < y, x > y on cells: every comparison with NaN is False
CellLe(x, y) == NotNa(x) /\ NotNa(y) /\ x.v <= y.v
CellLt(x, y) == NotNa(x) /\ NotNa(y) /\ x.v < y.v
CellGt(x, y) == NotNa(x) /\ NotNa(y) /\ x.v > y.v

\* ---------------------------------------------------------- DataFrames
\* A DataFrame is [t |-> "df", v |-> <<row, ...>>], a row a function from
\* column names to cells.
DataFrame(rows) == [t |-> "df", v |-> rows]
IsEmpty(df) == Len(df.v) = 0

STRIKE == "Strike Price"
CE_PCT == "CE_OI_Change_%"
PE_PCT == "PE_OI_Change_%"

\* Insertion of row r into the rows s sorted by column col, after every row
\* that is not greater (NaN last): one step of the stable sort.
RECURSIVE InsertSorted(_, _, _)
InsertSorted(s, r, col) ==
    IF s = <<>> THEN <<r>>
    ELSE IF NotNa(r[col]) /\ (~NotNa(Head(s)[col]) \/ r[col].v < Head(s)[col].v)
         THEN <<r>> \o s
         ELSE <<Head(s)>> \o InsertSorted(Tail(s), r, col)

RECURSIVE SortRows(_, _)
SortRows(s, col) ==
    IF s = <<>> THEN <<>>
    ELSE InsertSorted(SortRows(SubSeq(s, 1, Len(s) - 1), col), s[Len(s)], col)

\* df.sort_values(col)
sort_values(df, col) == DataFrame(SortRows(df.v, col))

\* df[mask]: the rows whose mask entry is True, in order
RECURSIVE MaskRows(_, _)
MaskRows(rows, mask) ==
    IF rows = <<>> THEN <<>>
    ELSE (IF Head(mask) THEN <<Head(rows)>> ELSE <<>>)
         \o MaskRows(Tail(rows), Tail(mask))

\* A slip in tail: the first n rows.
tail_first(df, n) ==
    DataFrame(SubSeq(df.v, 1, IF Len(df.v) < n THEN Len(df.v) ELSE n))

\* df.head(n), df.tail(n)
head(df, n) == DataFrame(SubSeq(df.v, 1, IF Len(df.v) < n THEN Len(df.v) ELSE n))
tail(df, n) ==
    DataFrame(SubSeq(df.v, (IF Len(df.v) < n THEN 0 ELSE Len(df.v) - n) + 1, Len(df.v)))

\* df.dropna(subset=[col])
dropna(df, col) == DataFrame(MaskRows(df.v, [i \in 1..Len(df.v) |-> NotNa(df.v[i][col])]))

Abs(x) == IF x < 0 THEN -x ELSE x

\* A slip in argmin: the last index of the minimum.
RECURSIVE ArgMinLastFrom(_, _, _)
ArgMinLastFrom(a, i, best) ==
    IF i > Len(a) THEN best
    ELSE ArgMinLastFrom(a, i + 1,
                        IF NotNa(a[best]) /\ (~NotNa(a[i]) \/ a[i].v <= a[best].v)
                        THEN i ELSE best)

argmin_last(a) == ArgMinLastFrom(a, 2, 1)

\* np.argmin(a) on a sequence of cells: the first index of the minimum
\* (1-based here); a NaN is the minimum of numpy's comparison, so the first
\* NaN wins.
RECURSIVE ArgMinFrom(_, _, _)
ArgMinFrom(a, i, best) ==
    IF i > Len(a) THEN best
    ELSE ArgMinFrom(a, i + 1,
                    IF NotNa(a[best]) /\ (~NotNa(a[i]) \/ a[i].v < a[best].v)
                    THEN i ELSE best)

argmin(a) == ArgMinFrom(a, 2, 1)

\* np.abs(strikes - close_price) on one cell
AbsDiff(x, close_price) == IF NotNa(x) THEN PyNum(Abs(x.v - close_price)) ELSE NaN

\* -------------------------------------------------- OTM strike selection
OtmCount == 2

\* Lines 239-249 of get_otm_strikes: the selection on a frame with rows.
SelectOtm(df, close_price) ==
    LET d == sort_values(df, STRIKE)
        strikes == [i \in 1..Len(d.v) |-> d.v[i][STRIKE]]
        dist == [i \in 1..Len(strikes) |-> AbsDiff(strikes[i], close_price)]
        atm_strike == strikes[argmin(dist)]
        above == [i \in 1..Len(d.v) |-> CellGt(d.v[i][STRIKE], PyNum(close_price))]
        below == [i \in 1..Len(d.v) |-> CellLt(d.v[i][STRIKE], PyNum(close_price))]
    IN [raised |-> FALSE,
        call_otm |-> head(DataFrame(MaskRows(d.v, above)), OtmCount),
        put_otm |-> tail(DataFrame(MaskRows(d.v, below)), OtmCount),
        atm |-> atm_strike]

\* What an exception escaping get_otm_strikes leaves behind
Raised == [raised |-> TRUE, call_otm |-> PyNone, put_otm |-> PyNone, atm |-> PyNone]

\* A slip in get_otm_strikes: no guard for the empty frame, so np.argmin of
\* an empty array raises ValueError.
get_otm_strikes_unguarded(df, close_price) ==
    IF df.t = "none" \/ IsEmpty(df) THEN Raised ELSE SelectOtm(df, close_price)

\* get_otm_strikes(df, close_price). For df None, `df is None` is true and
\* df.iloc raises AttributeError.
get_otm_strikes(df, close_price) ==
    IF df.t = "none" THEN Raised
    ELSE IF IsEmpty(df)
    THEN [raised |-> FALSE, call_otm |-> DataFrame(<<>>), put_otm |-> DataFrame(<<>>),
          atm |-> PyNone]
    ELSE SelectOtm(df, close_price)

\* ------------------------------------------------------- chain builders
\* The normalized result of fetch_oc_json: None, or
\* {"records": {"expiryDates": [...], "data": [...]}}.
Js(expiryDates, data) == [t |-> "js", v |-> [expiryDates |-> expiryDates, data |-> data]]

\* safe_get / sg: None for a non-dict, else the value of the first key present
RECURSIVE sg(_, _)
sg(o, keys) ==
    IF o.t # "dict" \/ keys = <<>> THEN PyNone
    ELSE IF Head(keys) \in DOMAIN o.v THEN DictGet(o, Head(keys))
    ELSE sg(o, Tail(keys))

\* The records of the requested expiry, or all records when the expiry is
\* None/empty or matches none.
ExpiryFilter(all_data, expiry) ==
    IF Truthy(expiry)
    THEN LET data_list ==
                 MaskRows(all_data,
                          [i \in 1..Len(all_data) |->
                              \/ DictGet(all_data[i], "expiryDate") = expiry
                              \/ DictGet(all_data[i], "expiry") = expiry])
         IN IF data_list = <<>> THEN all_data ELSE data_list
    ELSE all_data

\* The columns of the compact and the full table after the strike: the name,
\* the side's keys in the record and the candidate keys in the side's dict.
CallKeys == <<"CE", "call">>
PutKeys == <<"PE", "put">>
PctKeys == <<"pchangeinOpenInterest", "pchangeOI">>
OiKeys == <<"openInterest", "OI">>
LtpKeys == <<"lastPrice", "LTP", "last_price">>
ChgKeys == <<"changeinOpenInterest", "changeOI">>
IvKeys == <<"impliedVolatility", "IV">>

CompactColumns ==
    << <<CE_PCT, CallKeys, PctKeys>>, <<"CE_OI", CallKeys, OiKeys>>,
       <<PE_PCT, PutKeys, PctKeys>>, <<"PE_OI", PutKeys, OiKeys>> >>

FullColumns ==
    << <<"CE_LTP", CallKeys, LtpKeys>>, <<"CE_OI", CallKeys, OiKeys>>,
       <<"CE_Change_OI", CallKeys, ChgKeys>>, <<"CE_pChange_OI", CallKeys, PctKeys>>,
       <<"CE_IV", CallKeys, IvKeys>>, <<"CE_Delta", CallKeys, <<"delta">> >>,
       <<"CE_Vega", CallKeys, <<"vega">> >>, <<"CE_Gamma", CallKeys, <<"gamma">> >>,
       <<"CE_Theta", CallKeys, <<"theta">> >>,
       <<"PE_LTP", PutKeys, LtpKeys>>, <<"PE_OI", PutKeys, OiKeys>>,
       <<"PE_Change_OI", PutKeys, ChgKeys>>, <<"PE_pChange_OI", PutKeys, PctKeys>>,
       <<"PE_IV", PutKeys, IvKeys>>, <<"PE_Delta", PutKeys, <<"delta">> >>,
       <<"PE_Vega", PutKeys, <<"vega">> >>, <<"PE_Gamma", PutKeys, <<"gamma">> >>,
       <<"PE_Theta", PutKeys, <<"theta">> >> >>

\* ce = d.get("CE") or d.get("call") or {}
SideDict(d, sideKeys) ==
    PyOr(PyOr(DictGet(d, sideKeys[1]), DictGet(d, sideKeys[2])), EmptyDict)

\* strike = d.get("strikePrice") or d.get("strike")
RawStrike(d) == PyOr(DictGet(d, "strikePrice"), DictGet(d, "strike"))

\* One pass of the row loop: no row for a record whose strike is None or
\* does not convert to float, else the row of the strike and the columns.
ItemRows(d, strikeCol, columns) ==
    LET strike == RawStrike(d)
        strike_f == PyFloat(strike)
    IN IF strike.t = "none" \/ ~strike_f.ok THEN <<>>
       ELSE << [c \in {strikeCol} \cup {columns[j][1] : j \in 1..Len(columns)} |->
                  IF c = strikeCol THEN strike_f.val
                  ELSE LET j == CHOOSE k \in 1..Len(columns) : columns[k][1] = c
                       IN sg(SideDict(d, columns[j][2]), columns[j][3])] >>

RECURSIVE BuildRows(_, _, _)
BuildRows(data_list, strikeCol, columns) ==
    IF data_list = <<>> THEN <<>>
    ELSE ItemRows(Head(data_list), strikeCol, columns)
         \o BuildRows(Tail(data_list), strikeCol, columns)

\* df[c] = pd.to_numeric(df[c], errors="coerce") for the columns cols
NumericColumns(rows, cols) ==
    [i \in 1..Len(rows) |->
        [c \in DOMAIN rows[i] |-> IF c \in cols THEN ToNumeric(rows[i][c]) ELSE rows[i][c]]]

\* build_compact_chain_table_nt(symbol, expiry), given what fetch_oc_json
\* returned for the symbol
build_compact_chain_table_nt(js, expiry) ==
    IF js.t = "none" THEN PyNone
    ELSE LET rows == BuildRows(ExpiryFilter(js.v.data, expiry), STRIKE, CompactColumns)
         IN IF rows = <<>> THEN PyNone
            ELSE sort_values(
                     dropna(DataFrame(NumericColumns(rows, {CE_PCT, PE_PCT, STRIKE})), STRIKE),
                     STRIKE)

\* build_full_chain_table_nt(symbol, expiry), likewise
build_full_chain_table_nt(js, expiry) ==
    IF js.t = "none" THEN PyNone
    ELSE LET rows == BuildRows(ExpiryFilter(js.v.data, expiry), "Strike", FullColumns)
         IN IF rows = <<>> THEN PyNone
            ELSE sort_values(
                     DataFrame(NumericColumns(rows, {"Strike"} \cup
                                   {FullColumns[j][1] : j \in 1..Len(FullColumns)})),
                     "Strike")

\* ------------------------------------------------------ OI decay filter
\* A slip in the filter: < for <=.
DecayFilter_strict(side, col, decay_threshold) ==
    DataFrame(MaskRows(side.v,
        [i \in 1..Len(side.v) |->
            side.v[i][col].t = "num" /\ side.v[i][col].v < decay_threshold]))

\* A slip in the filter: the mask taken one row late, so a row is kept when
\* the row before it passes.
DecayFilter_misaligned(side, col, decay_threshold) ==
    DataFrame(MaskRows(side.v,
        [i \in 1..Len(side.v) |->
            i > 1 /\ CellLe(side.v[i - 1][col], PyNum(decay_threshold))]))

\* side[side[col].notna() & (side[col] <= decay_threshold)].copy()
DecayFilter(side, col, decay_threshold) ==
    LET notna == [i \in 1..Len(side.v) |-> NotNa(side.v[i][col])]
        le == [i \in 1..Len(side.v) |-> CellLe(side.v[i][col], PyNum(decay_threshold))]
    IN DataFrame(MaskRows(side.v, [i \in 1..Len(side.v) |-> notna[i] /\ le[i]]))

\* df[name] = value on every row
SetColumn(df, name, value) ==
    DataFrame([i \in 1..Len(df.v) |->
        [c \in DOMAIN df.v[i] \cup {name} |-> IF c = name THEN value ELSE df.v[i][c]]])

\* pd.concat(frames, ignore_index=True)
RECURSIVE concat(_)
concat(frames) ==
    IF frames = <<>> THEN DataFrame(<<>>)
    ELSE DataFrame(Head(frames).v \o concat(Tail(frames)).v)

\* A slip in the put side's filter: the call metric's column.
PutOk_callMetric(put_side, threshold) == DecayFilter(put_side, "CE_OI_Change_%", threshold)

\* call_ok and put_ok of the scans
CallOk(call_side, threshold) == DecayFilter(call_side, CE_PCT, threshold)
PutOk(put_side, threshold) == DecayFilter(put_side, PE_PCT, threshold)

\* The selection and the two filters of a scan on a chain with rows (lines
\* 465-476 and 509-518)
OtmDecayScan(compact, close, threshold) ==
    LET r == get_otm_strikes(compact, close.v)
    IN [call_otm |-> r.call_otm, put_otm |-> r.put_otm, atm |-> r.atm, raised |-> r.raised,
        call_ok |-> IF r.raised THEN PyNone ELSE CallOk(r.call_otm, threshold),
        put_ok |-> IF r.raised THEN PyNone ELSE PutOk(r.put_otm, threshold)]

\* A slip in the chain check of the multi-symbol loop: `.empty` left out.
ChainUnavailable_noneOnly(df) == df.t = "none"

\* compact_df is None or compact_df.empty
ChainUnavailable(df) == df.t = "none" \/ IsEmpty(df)

\* The first symbols of sorted(ALL_SYMBOLS)
SortedSymbols == <<"360ONE", "ABB", "ABCAPITAL", "ADANIENSOL">>
SymRank(sym) == CHOOSE i \in 1..Len(SortedSymbols) : SortedSymbols[i] = sym
SideRank(side) == IF side = "CALL_OTM" THEN 1 ELSE 2

\* The order of final.sort_values(["Symbol", "Side", "Strike Price"])
FinalBefore(r, q) ==
    \/ SymRank(r["Symbol"].v) < SymRank(q["Symbol"].v)
    \/ /\ r["Symbol"].v = q["Symbol"].v
       /\ \/ SideRank(r["Side"].v) < SideRank(q["Side"].v)
          \/ /\ r["Side"].v = q["Side"].v
             /\ r[STRIKE].v < q[STRIKE].v

RECURSIVE InsertFinal(_, _)
InsertFinal(s, r) ==
    IF s = <<>> THEN <<r>>
    ELSE IF FinalBefore(r, Head(s)) THEN <<r>> \o s
    ELSE <<Head(s)>> \o InsertFinal(Tail(s), r)

RECURSIVE SortFinal(_)
SortFinal(s) ==
    IF s = <<>> THEN <<>>
    ELSE InsertFinal(SortFinal(SubSeq(s, 1, Len(s) - 1)), s[Len(s)])

\* The four columns the multi-symbol loop adds to a side that has rows
Labelled(side, sym, sideName, close, atmStrike) ==
    SetColumn(SetColumn(SetColumn(SetColumn(side, "Symbol", PyText(sym)),
                                  "Side", PyText(sideName)),
                        "Close_Price", close),
              "ATM_Approx", atmStrike)

\* ------------------------------------------------- IV spike/crush style
GREEN == "background-color: rgba(0,255,0,0.25);"
RED == "background-color: rgba(255,0,0,0.25);"

\* A slip in highlight: the crush comparison made first.
highlight_crush_first(col, val, iv_spike, iv_crush) ==
    IF col \in {"CE_IV", "PE_IV"} /\ val.t = "num"
    THEN IF val.v <= iv_crush THEN "background-color: rgba(255,0,0,0.25);"
         ELSE IF val.v >= iv_spike THEN "background-color: rgba(0,255,0,0.25);"
         ELSE ""
    ELSE ""

\* The style of one cell in highlight(row) of style_greeks
highlight(col, val, iv_spike, iv_crush) ==
    IF col \in {"CE_IV", "PE_IV"}
    THEN IF NotNa(val)
         THEN IF val.v >= iv_spike THEN GREEN
              ELSE IF val.v <= iv_crush THEN RED
              ELSE ""
         ELSE ""
    ELSE ""

\* style_greeks(df, iv_spike, iv_crush): the style of every cell, row by row
style_greeks(df, iv_spike, iv_crush) ==
    [i \in 1..Len(df.v) |->
        [c \in DOMAIN df.v[i] |-> highlight(c, df.v[i][c], iv_spike, iv_crush)]]

\* ------------------------------------------------------------ the state
VARIABLES
    pc,                \* where the run is; "crashed" after an uncaught exception
    selected_symbols,  \* the symbols chosen in the multiselect
    selected_expiry,   \* the expiry chosen in the selectbox, or None
    decay_threshold,   \* "OI Decay % Threshold"
    iv_spike,          \* "IV Spike >="
    iv_crush,          \* "IV Crush <="
    js,                \* what fetch_oc_json returned last
    idx,               \* symbols of the multi-symbol loop already visited
    close_price,       \* get_close_price(sym), or None
    compact_df,        \* build_compact_chain_table_nt(...), or None
    full_chain,        \* build_full_chain_table_nt(...), or None
    styled,            \* the cell styles of style_greeks(full_chain, ...)
    call_otm,          \* what get_otm_strikes returned: the strikes above,
    put_otm,           \* the strikes below,
    atm,               \* the ATM strike
    raised,            \* an exception escaped the call
    call_ok,           \* the sides after the decay filter (and labelling)
    put_ok,
    all_results,       \* the frames collected by the multi-symbol loop
    skipped,           \* the (symbol, reason) pairs of the multi-symbol loop
    final,             \* final_single / final, or None
    attempt,           \* fetch_oc_json: the loop variable of the retry loop
    cache,             \* fetch_oc_json: the entry of st.cache_data(ttl=20)
    calls,             \* the calls of fetch_oc_json made so far
    log                \* the requests and sleeps of the current call, in order

vars == <<pc, selected_symbols, selected_expiry, decay_threshold, iv_spike, iv_crush,
          js, idx, close_price, compact_df, full_chain, styled, call_otm, put_otm,
          atm, raised, call_ok, put_ok, all_results, skipped, final, attempt, cache,
          calls, log>>

widgetVars == <<selected_symbols, selected_expiry, decay_threshold, iv_spike, iv_crush>>
otmVars == <<call_otm, put_otm, atm, raised>>
scanVars == <<idx, call_ok, put_ok, all_results, skipped, final>>
fetchVars == <<attempt, cache, calls, log>>

\* The sequences over S of length at most n
RECURSIVE SeqsUpTo(_, _)
SeqsUpTo(S, n) ==
    IF n = 0 THEN {<<>>}
    ELSE LET shorter == SeqsUpTo(S, n - 1)
         IN shorter \cup {Append(q, x) : q \in {r \in shorter : Len(r) = n - 1}, x \in S}

\* The widgets' default values (lines 389-405)
DefaultWidgets ==
    /\ selected_symbols = <<>>
    /\ selected_expiry = PyNone
    /\ decay_threshold = -MaxDecay
    /\ iv_spike = MaxIV
    /\ iv_crush = 0

NothingFetched == js = PyNone /\ full_chain = PyNone /\ styled = <<>>

NothingSelected ==
    call_otm = PyNone /\ put_otm = PyNone /\ atm = PyNone /\ raised = FALSE

\* st.cache_data holds no entry for the symbol
NotCached == [hit |-> FALSE, value |-> PyNone]

\* fetch_oc_json has not been called
NoFetchRunning == attempt = 0 /\ cache = NotCached /\ calls = 0 /\ log = <<>>

NothingScanned ==
    /\ idx = 0
    /\ call_ok = PyNone
    /\ put_ok = PyNone
    /\ all_results = <<>>
    /\ skipped = <<>>
    /\ final = PyNone

\* ----------------------------------------- get_otm_strikes on its own
\* A row of the compact table
ChainRow(strike, ce, pe) ==
    (STRIKE :> PyNum(strike)) @@ (CE_PCT :> ce) @@ ("CE_OI" :> PyNum(1))
    @@ (PE_PCT :> pe) @@ ("PE_OI" :> PyNum(1))

SelectRows ==
    {ChainRow(k, m[1], m[2]) :
        k \in 1..MaxStrike, m \in {<<NaN, PyNum(-1)>>, <<PyNum(-1), NaN>>}}

\* The frames handed to get_otm_strikes: in any order, strikes may repeat
SelectFrames == {DataFrame(rows) : rows \in SeqsUpTo(SelectRows, MaxRows)}

InitSelect ==
    /\ pc = "select"
    /\ DefaultWidgets
    /\ NothingFetched
    /\ NothingSelected
    /\ NothingScanned
    /\ NoFetchRunning
    /\ compact_df \in SelectFrames \cup {PyNone}
    /\ close_price \in {PyNum(n) : n \in 0..(MaxStrike + 1)}

\* call_otm, put_otm, atm = get_otm_strikes(compact_df, close_price)
CallGetOtmStrikes ==
    /\ pc = "select"
    /\ LET r == get_otm_strikes(compact_df, close_price.v)
       IN /\ call_otm' = r.call_otm
          /\ put_otm' = r.put_otm
          /\ atm' = r.atm
          /\ raised' = r.raised
    /\ pc' = "selected"
    /\ UNCHANGED <<fetchVars, widgetVars, scanVars, js, close_price, compact_df, full_chain, styled>>

NextSelect == CallGetOtmStrikes

SpecSelect == InitSelect /\ [][NextSelect]_vars

\* ------------------------------------------ the chain builders on their own
\* One side's dict in a provider record, under the first candidate keys
SideData(pct, iv) ==
    PyDict(("pchangeinOpenInterest" :> pct) @@ ("openInterest" :> PyNum(1))
           @@ ("impliedVolatility" :> iv))

\* A provider record under the first candidate keys, and one under the second
Item(expiry, strike, ce, pe) ==
    PyDict(("expiryDate" :> expiry) @@ ("strikePrice" :> strike)
           @@ ("CE" :> ce) @@ ("PE" :> pe))
AltItem(expiry, strike, ce, pe) ==
    PyDict(("expiry" :> expiry) @@ ("strike" :> strike)
           @@ ("call" :> ce) @@ ("put" :> pe))
AltSideData(pct) == PyDict(("pchangeOI" :> pct) @@ ("OI" :> PyNum(1)))

\* Strike values a provider may send: numbers, a numeric string, None, a
\* string that is no number, nan.
RawStrikes == {PyNum(k) : k \in 1..MaxStrike} \cup {PyNumStr(1), PyNone, PyBad, NaN}

BuildItems ==
    {Item(e, k, SideData(PyNum(-1), PyNum(1)), SideData(PyNone, PyBad)) :
        e \in {PyDate(1), PyDate(2)}, k \in RawStrikes}
    \cup {AltItem(PyDate(1), PyNum(1), AltSideData(PyNum(-1)), PyNone),
          PyDict(("expiryDate" :> PyDate(2)) @@ ("strikePrice" :> PyNum(0))
                 @@ ("strike" :> PyNum(2)) @@ ("CE" :> EmptyDict))}

BuildFetches ==
    {PyNone} \cup {Js(<<PyDate(1), PyDate(2)>>, data) : data \in SeqsUpTo(BuildItems, MaxItems)}

InitBuild ==
    /\ pc = "build"
    /\ selected_symbols = <<>>
    /\ selected_expiry \in {PyNone, PyDate(1), PyDate(2), PyDate(3)}
    /\ decay_threshold = -MaxDecay
    /\ iv_spike = MaxIV
    /\ iv_crush = 0
    /\ js \in BuildFetches
    /\ full_chain = PyNone
    /\ styled = <<>>
    /\ compact_df = PyNone
    /\ close_price = PyNone
    /\ NothingSelected
    /\ NothingScanned
    /\ NoFetchRunning

\* compact_df = build_compact_chain_table_nt(sym, selected_expiry)
BuildCompact ==
    /\ pc = "build"
    /\ compact_df' = build_compact_chain_table_nt(js, selected_expiry)
    /\ pc' = "built_compact"
    /\ UNCHANGED <<fetchVars, widgetVars, otmVars, scanVars, js, close_price, full_chain, styled>>

\* full_chain = build_full_chain_table_nt(sym, selected_expiry)
BuildFull ==
    /\ pc = "build"
    /\ full_chain' = build_full_chain_table_nt(js, selected_expiry)
    /\ pc' = "built_full"
    /\ UNCHANGED <<fetchVars, widgetVars, otmVars, scanVars, js, close_price, compact_df, styled>>

NextBuild == BuildCompact \/ BuildFull

SpecBuild == InitBuild /\ [][NextBuild]_vars

\* ------------------------------------------------ style_greeks on its own
\* IV values a provider may send
RawIVs == {PyNum(k) : k \in 0..MaxIV} \cup {PyNone, PyBad}

\* The full tables of one record, over the IV values of its two sides
StyleFrames ==
    {build_full_chain_table_nt(
         Js(<<PyDate(1)>>,
            <<Item(PyDate(1), PyNum(1), SideData(PyNum(-1), civ), SideData(PyNum(-1), piv))>>),
         PyNone) : civ \in RawIVs, piv \in RawIVs}

InitStyle ==
    /\ pc = "style"
    /\ selected_symbols = <<>>
    /\ selected_expiry = PyNone
    /\ decay_threshold = -MaxDecay
    /\ iv_spike \in 0..MaxIV
    /\ iv_crush \in 0..MaxIV
    /\ js = PyNone
    /\ full_chain \in StyleFrames
    /\ styled = <<>>
    /\ compact_df = PyNone
    /\ close_price = PyNone
    /\ NothingSelected
    /\ NothingScanned
    /\ NoFetchRunning

\* styled = style_greeks(full_chain, iv_spike, iv_crush)
StyleGreeks ==
    /\ pc = "style"
    /\ styled' = style_greeks(full_chain, iv_spike, iv_crush)
    /\ pc' = "styled"
    /\ UNCHANGED <<fetchVars, widgetVars, otmVars, scanVars, js, close_price, compact_df, full_chain>>

NextStyle == StyleGreeks

SpecStyle == InitStyle /\ [][NextStyle]_vars

\* ------------------------------------------------------------ the scan
Symbols == {SortedSymbols[i] : i \in 1..MaxSyms}

\* The selections of the multiselect: distinct symbols in the order chosen
SymbolLists == {q \in SeqsUpTo(Symbols, MaxSyms) : \A i, j \in 1..Len(q) : i # j => q[i] # q[j]}

\* The OI-change percentages of the two sides of a provider record
PctPairs ==
    {<<PyNum(-MaxDecay), PyBad>>, <<PyNum(-1), PyNum(-MaxDecay)>>, <<PyNone, PyNum(-1)>>}

ScanItems ==
    {Item(PyDate(1), PyNum(k), SideData(m[1], PyNone), SideData(m[2], PyNone)) :
        k \in 1..MaxStrike, m \in PctPairs}

\* What fetch_oc_json may return to the single-symbol scan
ScanFetches ==
    {PyNone} \cup {Js(<<PyDate(1)>>, data) : data \in SeqsUpTo(ScanItems, MaxItems)}

\* What get_close_price may return
Closes == {PyNone} \cup {PyNum(k) : k \in 1..MaxStrike}

\* A provider record of the multi-symbol payloads
MultiItem(expiry, strike, ce, pe) ==
    Item(PyDate(expiry), strike, SideData(ce, PyNone), SideData(pe, PyNone))

\* What fetch_oc_json may return to a symbol of the multi-symbol loop: None,
\* records without a usable strike, a nan strike, and three chains (the first holds a strike above MaxStrike).
MultiFetches ==
    {PyNone,
     Js(<<>>, <<MultiItem(1, PyNone, PyNum(-1), PyNum(-1)), MultiItem(1, PyBad, PyNone, PyNone)>>),
     Js(<<PyDate(1)>>, <<MultiItem(1, NaN, PyNum(-2), PyNum(-2))>>),
     Js(<<PyDate(1)>>,
        <<MultiItem(1, PyNum(4), PyNone, PyNum(0)), MultiItem(1, PyNum(2), PyNum(-2), PyNum(-2)),
          MultiItem(1, PyNum(1), PyNum(0), PyNum(-1)), MultiItem(1, PyNum(3), PyNum(-2), PyNone)>>),
     Js(<<PyDate(1), PyDate(2)>>,
        <<MultiItem(1, PyNum(1), PyNone, PyNone), MultiItem(2, PyNum(3), PyNum(-1), PyNum(-2)),
          MultiItem(2, PyNum(1), PyNum(-2), PyNum(-1))>>),
     Js(<<PyDate(2)>>,
        <<MultiItem(2, PyNum(1), PyNum(-2), PyBad), MultiItem(2, PyNumStr(3), PyNone, PyNum(-2))>>)}

MultiCloses == {PyNone, PyNum(1), PyNum(2)}

InitScan ==
    /\ pc = "idle"
    /\ selected_symbols \in SymbolLists
    /\ selected_expiry = PyDate(1)
    /\ decay_threshold \in (-MaxDecay)..(-1)
    /\ iv_spike = MaxIV
    /\ iv_crush = 0
    /\ NothingFetched
    /\ compact_df = PyNone
    /\ close_price = PyNone
    /\ NothingSelected
    /\ NothingScanned
    /\ NoFetchRunning

\* Run Scan with no symbol selected: a warning (lines 428-429)
NoSymbolSelected ==
    /\ pc = "idle"
    /\ selected_symbols = <<>>
    /\ pc' = "done"
    /\ UNCHANGED <<fetchVars, widgetVars, otmVars, scanVars, js, close_price, compact_df, full_chain,
                   styled>>

\* Run Scan with one symbol selected (lines 430-486). Both builders read the
\* same fetch, which is cached for 20 s. The bound names of the singleton
\* sets stand for the code's local variables.
SingleSymbolScan ==
    /\ pc = "idle"
    /\ Len(selected_symbols) = 1
    /\ \E cp \in Closes :
          /\ close_price' = cp
          /\ IF cp.t = "none"
             THEN /\ pc' = "done"
                  /\ UNCHANGED <<js, full_chain, styled, compact_df, otmVars, call_ok,
                                 put_ok, final>>
             ELSE \E fetched \in ScanFetches :
                  \E full \in {build_full_chain_table_nt(fetched, selected_expiry)} :
                  \E compact \in {build_compact_chain_table_nt(fetched, selected_expiry)} :
                    /\ js' = fetched
                    /\ full_chain' = full
                    /\ styled' = IF full.t = "none" \/ IsEmpty(full) THEN styled
                                 ELSE style_greeks(full, iv_spike, iv_crush)
                    /\ compact_df' = compact
                    /\ IF compact.t # "none" /\ ~IsEmpty(compact)
                       THEN \E scan \in {OtmDecayScan(compact, cp, decay_threshold)} :
                            /\ pc' = IF scan.raised THEN "crashed" ELSE "done"
                            /\ call_otm' = scan.call_otm
                            /\ put_otm' = scan.put_otm
                            /\ atm' = scan.atm
                            /\ raised' = scan.raised
                            /\ IF ~IsEmpty(scan.call_ok) \/ ~IsEmpty(scan.put_ok)
                               THEN /\ call_ok' = SetColumn(scan.call_ok, "Side",
                                                            PyText("CALL_OTM"))
                                    /\ put_ok' = SetColumn(scan.put_ok, "Side",
                                                           PyText("PUT_OTM"))
                                    /\ final' = sort_values(concat(<<call_ok', put_ok'>>),
                                                            STRIKE)
                               ELSE /\ call_ok' = scan.call_ok
                                    /\ put_ok' = scan.put_ok
                                    /\ final' = final
                       ELSE /\ pc' = "done"
                            /\ UNCHANGED <<otmVars, call_ok, put_ok, final>>
    /\ UNCHANGED <<fetchVars, widgetVars, idx, all_results, skipped>>

\* One pass of the multi-symbol loop (lines 492-546), for the next symbol
MultiSymbolStep ==
    /\ pc \in {"idle", "loop"}
    /\ Len(selected_symbols) > 1
    /\ idx < Len(selected_symbols)
    /\ idx' = idx + 1
    /\ \E sym \in {selected_symbols[idx + 1]} : \E cp \in MultiCloses :
          /\ close_price' = cp
          /\ IF cp.t = "none"
             THEN /\ pc' = "loop"
                  /\ skipped' = Append(skipped, <<sym, "close price unavailable">>)
                  /\ UNCHANGED <<js, compact_df, otmVars, call_ok, put_ok, all_results>>
             ELSE \E fetched \in MultiFetches :
                  \E compact \in {build_compact_chain_table_nt(fetched, selected_expiry)} :
                    /\ js' = fetched
                    /\ compact_df' = compact
                    /\ IF ChainUnavailable(compact)
                       THEN /\ pc' = "loop"
                            /\ skipped' = Append(skipped, <<sym, "no option chain">>)
                            /\ UNCHANGED <<otmVars, call_ok, put_ok, all_results>>
                       ELSE \E scan \in {OtmDecayScan(compact, cp, decay_threshold)} :
                            /\ pc' = IF scan.raised THEN "crashed" ELSE "loop"
                            /\ skipped' = skipped
                            /\ call_otm' = scan.call_otm
                            /\ put_otm' = scan.put_otm
                            /\ atm' = scan.atm
                            /\ raised' = scan.raised
                            /\ call_ok' =
                                   IF IsEmpty(scan.call_ok) THEN scan.call_ok
                                   ELSE Labelled(scan.call_ok, sym, "CALL_OTM", cp, scan.atm)
                            /\ put_ok' =
                                   IF IsEmpty(scan.put_ok) THEN scan.put_ok
                                   ELSE Labelled(scan.put_ok, sym, "PUT_OTM", cp, scan.atm)
                            /\ all_results' =
                                   all_results
                                   \o (IF IsEmpty(scan.call_ok) THEN <<>> ELSE <<call_ok'>>)
                                   \o (IF IsEmpty(scan.put_ok) THEN <<>> ELSE <<put_ok'>>)
    /\ UNCHANGED <<fetchVars, widgetVars, full_chain, styled, final>>

\* After the loop (lines 548-568): the skipped summary and the final table
MultiSymbolFinish ==
    /\ pc \in {"idle", "loop"}
    /\ Len(selected_symbols) > 1
    /\ idx = Len(selected_symbols)
    /\ pc' = "done"
    /\ final' = IF all_results = <<>> THEN final
                ELSE DataFrame(SortFinal(concat(all_results).v))
    /\ UNCHANGED <<fetchVars, widgetVars, otmVars, js, idx, close_price, compact_df, full_chain,
                   styled, call_ok, put_ok, all_results, skipped>>

NextScan == NoSymbolSelected \/ SingleSymbolScan \/ MultiSymbolStep \/ MultiSymbolFinish

SpecScan == InitScan /\ [][NextScan]_vars

\* ------------------------------------------------------- fetch_oc_json
\* tries = 2
tries == 2

\* One entry of the log of a call: a request with its outcome, or a sleep
\* with its length in tenths of a second
RequestEvent(n, outcome) == [ev |-> "request", attempt |-> n, outcome |-> outcome, tenths |-> 0]
SleepEvent(n) == [ev |-> "sleep", attempt |-> n, outcome |-> PyNone, tenths |-> 6 * (n + 1)]

\* What one requests.get may end in: an exception of requests.get (timeout,
\* connection error), an HTTP error status (raise_for_status raises), a body
\* that is no JSON (r.json() raises), or a JSON body.
Failure(kind) == [kind |-> kind, body |-> PyNone]
Response(body) == [kind |-> "json", body |-> body]

\* o.get(k, default) on a dict value
DictGetOr(o, k, default) == IF k \in DOMAIN o.v THEN o.v[k] ELSE default

\* The list of a list value, as Js holds it; any other value as it is
Items(x) == IF x.t = "list" THEN x.v ELSE x

\* Lines 76-90, the body of the try after r.json(): [ok |-> FALSE] stands for
\* the AttributeError of `.get` on a value that is no dict.
Normalize(body) ==
    IF body.t # "dict" THEN [ok |-> FALSE, val |-> PyNone]
    ELSE
    LET rootExpiry == DictGetOr(body, "expiryDates", PyList(<<>>))
        records == DictGetOr(body, "records", EmptyDict)
        embedded == DictGetOr(body, "data", EmptyDict)
    IN IF records.t # "dict" THEN [ok |-> FALSE, val |-> PyNone]
       ELSE
       LET expiry_list == PyOr(rootExpiry, DictGetOr(records, "expiryDates", PyList(<<>>)))
           nested == DictGetOr(records, "data", PyList(<<>>))
           fallback == ~Truthy(nested) /\ "data" \in DOMAIN body.v
       IN IF fallback /\ embedded.t # "dict" THEN [ok |-> FALSE, val |-> PyNone]
          ELSE
          LET data_list ==
                  IF fallback
                  THEN PyOr(DictGetOr(embedded, "data", PyList(<<>>)),
                            DictGetOr(body, "data", PyList(<<>>)))
                  ELSE nested
          IN [ok |-> TRUE,
              val |-> Js(Items(PyOr(expiry_list, PyList(<<>>))),
                         Items(PyOr(data_list, PyList(<<>>))))]

\* One pass of the try (lines 74-90): the normalized dict returned, or
\* [ok |-> FALSE] for an exception, which the except clause catches.
Attempt(outcome) ==
    IF outcome.kind = "json" THEN Normalize(outcome.body) ELSE [ok |-> FALSE, val |-> PyNone]

\* A slip in the except clause: the backoff sleep after every failure.
SleepsAfter_always(n) == TRUE

\* `if attempt < tries - 1`: the backoff sleep, else `return None`
SleepsAfter(n) == n < tries - 1

\* The entry st.cache_data keeps of a returned value
Cached(value) == [hit |-> TRUE, value |-> value]

\* The bodies the endpoint may answer with: the expiry dates at the root or
\* under records, the data under records or embedded under data, an empty
\* object, data as a list, records null, and a JSON array.
ResponseBodies ==
    LET item == Item(PyDate(1), PyNum(1), SideData(PyNum(-1), PyNone), SideData(PyNone, PyNone))
        dates == PyList(<<PyDate(1)>>)
        data == PyList(<<item>>)
    IN {PyDict(("expiryDates" :> dates) @@ ("records" :> PyDict("data" :> data))),
        PyDict("records" :> PyDict(("expiryDates" :> dates) @@ ("data" :> data))),
        PyDict("data" :> PyDict("data" :> data)),
        PyDict("data" :> EmptyDict),
        EmptyDict,
        PyDict("data" :> data),
        PyDict("records" :> PyNone),
        PyList(<<>>)}

Outcomes ==
    {Failure("timeout"), Failure("http_error"), Failure("not_json")}
    \cup {Response(b) : b \in ResponseBodies}

InitFetch ==
    /\ pc = "ready"
    /\ DefaultWidgets
    /\ NothingFetched
    /\ compact_df = PyNone
    /\ close_price = PyNone
    /\ NothingSelected
    /\ NothingScanned
    /\ NoFetchRunning

\* A call of fetch_oc_json within 20 s of the one that filled the cache:
\* st.cache_data returns the value it holds and the body does not run.
FetchCached ==
    /\ pc \in {"ready", "returned"}
    /\ calls < MaxCalls
    /\ cache.hit
    /\ calls' = calls + 1
    /\ log' = <<>>
    /\ js' = cache.value
    /\ pc' = "returned"
    /\ UNCHANGED <<attempt, cache, widgetVars, otmVars, scanVars, close_price, compact_df,
                   full_chain, styled>>

\* A call of fetch_oc_json that runs the body: the loop starts (line 73)
FetchCall ==
    /\ pc \in {"ready", "returned"}
    /\ calls < MaxCalls
    /\ ~cache.hit
    /\ calls' = calls + 1
    /\ log' = <<>>
    /\ attempt' = 0
    /\ pc' = "request"
    /\ UNCHANGED <<cache, js, widgetVars, otmVars, scanVars, close_price, compact_df,
                   full_chain, styled>>

\* One pass of the loop body up to the sleep (lines 74-96): the request, and
\* the return of the dict or, after the last failure, of None
Request ==
    /\ pc = "request"
    /\ \E outcome \in Outcomes : \E r \in {Attempt(outcome)} :
          /\ log' = Append(log, RequestEvent(attempt, outcome))
          /\ IF r.ok
             THEN /\ js' = r.val
                  /\ cache' = Cached(r.val)
                  /\ pc' = "returned"
             ELSE IF SleepsAfter(attempt)
             THEN /\ pc' = "sleep"
                  /\ UNCHANGED <<js, cache>>
             ELSE /\ js' = PyNone
                  /\ cache' = Cached(PyNone)
                  /\ pc' = "returned"
    /\ UNCHANGED <<attempt, calls, widgetVars, otmVars, scanVars, close_price, compact_df,
                   full_chain, styled>>

\* time.sleep(0.6 * (attempt + 1)) and the next pass of `for attempt in
\* range(tries)`; a loop that runs out returns None.
Sleep ==
    /\ pc = "sleep"
    /\ log' = Append(log, SleepEvent(attempt))
    /\ attempt' = attempt + 1
    /\ IF attempt + 1 < tries
       THEN /\ pc' = "request"
            /\ UNCHANGED <<js, cache>>
       ELSE /\ js' = PyNone
            /\ cache' = Cached(PyNone)
            /\ pc' = "returned"
    /\ UNCHANGED <<calls, widgetVars, otmVars, scanVars, close_price, compact_df, full_chain,
                   styled>>

\* The entry of st.cache_data is 20 s old
CacheExpires ==
    /\ pc \in {"ready", "returned"}
    /\ cache.hit
    /\ cache' = NotCached
    /\ UNCHANGED <<pc, attempt, calls, log, js, widgetVars, otmVars, scanVars, close_price,
                   compact_df, full_chain, styled>>

NextFetch == FetchCached \/ FetchCall \/ Request \/ Sleep \/ CacheExpires

\* requests.get has a timeout of 10 s and time.sleep ends: a call that runs
\* keeps taking its steps.
SpecFetch == InitFetch /\ [][NextFetch]_vars /\ WF_vars(Request) /\ WF_vars(Sleep)

\* --------------------------------------------- claims on get_otm_strikes
\* The strikes of a frame's rows, and how often a row occurs in a frame
StrikesOf(df) == {df.v[i][STRIKE].v : i \in 1..Len(df.v)}
Count(df, r) == Cardinality({i \in 1..Len(df.v) : df.v[i] = r})
RowsOf(df) == {df.v[i] : i \in 1..Len(df.v)}
Ascending(df) ==
    \A i \in 1..Len(df.v) : \A j \in 1..Len(df.v) :
        i < j => df.v[i][STRIKE].v <= df.v[j][STRIKE].v
Min2(a, b) == IF a < b THEN a ELSE b

Selected == pc = "selected" /\ compact_df.t = "df" /\ ~IsEmpty(compact_df)

\* C1: for a non-empty chain the ATM value get_otm_strikes returns is a strike
\* of the chain at minimal absolute distance to the reference price, and of
\* two equidistant strikes it is the lower.
C1_AtmNearestLowerOnTie ==
    Selected =>
        /\ ~raised
        /\ atm.t = "num"
        /\ atm.v \in StrikesOf(compact_df)
        /\ \A k \in StrikesOf(compact_df) :
              /\ Abs(atm.v - close_price.v) <= Abs(k - close_price.v)
              /\ Abs(atm.v - close_price.v) = Abs(k - close_price.v) => atm.v <= k

\* A chain with two strikes equidistant from the reference price and none
\* nearer, given out of order, was selected from.
C1_Witness ==
    /\ Selected
    /\ \E a \in StrikesOf(compact_df) : \E b \in StrikesOf(compact_df) :
          /\ a < b
          /\ close_price.v - a = b - close_price.v
          /\ \A k \in StrikesOf(compact_df) : Abs(k - close_price.v) >= b - close_price.v
          /\ atm.v = a
    /\ ~Ascending(compact_df)

\* side holds exactly the Min(OtmCount, n) rows of the chain nearest to the
\* reference price among the n rows that satisfy Far (strictly below, or
\* strictly above), in ascending strike order.
NearestRows(side, Far(_), Nearer(_, _)) ==
    /\ side.t = "df"
    /\ Ascending(side)
    /\ Len(side.v) =
           Min2(OtmCount, Cardinality({i \in 1..Len(compact_df.v) : Far(compact_df.v[i])}))
    /\ \A r \in RowsOf(side) : Far(r) /\ Count(side, r) <= Count(compact_df, r)
    /\ \A r \in RowsOf(compact_df) :
          (Far(r) /\ Count(side, r) < Count(compact_df, r))
              => \A q \in RowsOf(side) : ~Nearer(r, q)

IsBelow(r) == r[STRIKE].v < close_price.v
IsAbove(r) == r[STRIKE].v > close_price.v
Larger(r, q) == r[STRIKE].v > q[STRIKE].v
Smaller(r, q) == r[STRIKE].v < q[STRIKE].v

\* C2: for every chain, sorted or not, put_otm is exactly the min(2, n) rows
\* with the largest strikes strictly below the reference price and call_otm
\* exactly the min(2, m) rows with the smallest strikes strictly above it,
\* each in ascending strike order; no row at the reference price is in either.
C2_BelowAboveNearestTwo ==
    (pc = "selected" /\ compact_df.t = "df") =>
        /\ ~raised
        /\ NearestRows(put_otm, IsBelow, Larger)
        /\ NearestRows(call_otm, IsAbove, Smaller)
        /\ close_price.v \notin StrikesOf(put_otm) \cup StrikesOf(call_otm)

\* An unsorted chain with more than two distinct strikes below the reference
\* price, of which the two largest were selected.
C2_Witness ==
    /\ Selected
    /\ ~Ascending(compact_df)
    /\ Cardinality({k \in StrikesOf(compact_df) : k < close_price.v}) > OtmCount
    /\ Len(put_otm.v) = OtmCount

\* C3 as claimed: neither put_otm nor call_otm holds a row whose strike is
\* the ATM strike of the same call.
C3_AtmInNeitherSide ==
    Selected => atm.v \notin StrikesOf(put_otm) \cup StrikesOf(call_otm)

\* C3 as amended: neither side holds a row at the reference price, so the
\* ATM row is in neither side exactly when the ATM strike equals the
\* reference price; an ATM strike off the reference price is in one side.
C3_AtmInNeitherSideIffAtReference ==
    Selected =>
        (atm.v \notin StrikesOf(put_otm) \cup StrikesOf(call_otm)
            <=> atm.v = close_price.v)

\* The ATM strike is the reference price, with rows selected on both sides.
C3_Witness ==
    /\ Selected
    /\ atm.v = close_price.v
    /\ ~IsEmpty(put_otm)
    /\ ~IsEmpty(call_otm)

\* C8: get_otm_strikes on an empty chain returns two empty frames and None
\* as the ATM value, and does not raise.
C8_EmptyChain ==
    (pc = "selected" /\ compact_df.t = "df" /\ IsEmpty(compact_df)) =>
        /\ ~raised
        /\ call_otm = DataFrame(<<>>)
        /\ put_otm = DataFrame(<<>>)
        /\ atm = PyNone

\* get_otm_strikes returned for an empty chain.
C8_Witness == pc = "selected" /\ compact_df = DataFrame(<<>>) /\ close_price.v > 0

\* ---------------------------------------------- claims on the builders
\* No two rows of the frame have the same value in the strike column
UniqueStrikes(df, col) ==
    \A i \in 1..Len(df.v) : \A j \in 1..Len(df.v) :
        (i # j /\ NotNa(df.v[i][col])) => df.v[i][col] # df.v[j][col]

\* The provider sent at most one record per expiry and strike value.
OneRecordPerExpiryAndStrike ==
    js.t = "js" =>
        LET ExpiryAt(i) ==
                PyOr(DictGet(js.v.data[i], "expiryDate"), DictGet(js.v.data[i], "expiry"))
            StrikeAt(i) == PyFloat(RawStrike(js.v.data[i])).val
        IN \A i \in 1..Len(js.v.data) : \A j \in 1..Len(js.v.data) :
               (i # j /\ ExpiryAt(i) = ExpiryAt(j) /\ NotNa(StrikeAt(i)))
                   => StrikeAt(i) # StrikeAt(j)

\* C4: no two rows of the table build_compact_chain_table_nt (or
\* build_full_chain_table_nt) returns have the same strike, for every
\* requested expiry, also one that is None or matches no record; stated here
\* for the payloads that hold one record per expiry and strike.
C4_StrikesUnique ==
    OneRecordPerExpiryAndStrike =>
        /\ (pc = "built_compact" /\ compact_df.t = "df") => UniqueStrikes(compact_df, STRIKE)
        /\ (pc = "built_full" /\ full_chain.t = "df") => UniqueStrikes(full_chain, "Strike")

\* ------------------------------------------------ claims on style_greeks
\* C6: an IV cell gets no highlight when its value is absent, the spike
\* style (green) when value >= iv_spike, the crush style (red) when value <=
\* iv_crush and it is no spike, and no highlight otherwise; with inverted
\* thresholds a value satisfying both comparisons is a spike.
C6_IvClassification ==
    pc = "styled" =>
        /\ Len(styled) = Len(full_chain.v)
        /\ \A i \in 1..Len(full_chain.v) : \A c \in {"CE_IV", "PE_IV"} :
              LET val == full_chain.v[i][c]
              IN /\ val.t # "num" => styled[i][c] = ""
                 /\ (val.t = "num" /\ val.v >= iv_spike) => styled[i][c] = GREEN
                 /\ (val.t = "num" /\ val.v < iv_spike /\ val.v <= iv_crush)
                        => styled[i][c] = RED
                 /\ (val.t = "num" /\ val.v < iv_spike /\ val.v > iv_crush)
                        => styled[i][c] = ""

\* With inverted thresholds, a cell whose value satisfies both comparisons was
\* styled as a spike, beside a cell with no value.
C6_Witness ==
    /\ pc = "styled"
    /\ iv_crush > iv_spike
    /\ \E i \in 1..Len(full_chain.v) :
          /\ full_chain.v[i]["CE_IV"].t = "num"
          /\ full_chain.v[i]["CE_IV"].v >= iv_spike
          /\ full_chain.v[i]["CE_IV"].v <= iv_crush
          /\ styled[i]["CE_IV"] = GREEN
          /\ full_chain.v[i]["PE_IV"].t = "nan"

\* --------------------------------------------------- claims on the scans
CompactColumnNames == {STRIKE, CE_PCT, "CE_OI", PE_PCT, "PE_OI"}

\* A result row without the columns the scan added to it
ChainPart(r) == [c \in CompactColumnNames |-> r[c]]
ChainParts(df) == [i \in 1..Len(df.v) |-> ChainPart(df.v[i])]

\* The metric in column col is present and at most the decay threshold
Decayed(r, col) == r[col].t = "num" /\ r[col].v <= decay_threshold
CallDecayed(r) == Decayed(r, CE_PCT)
PutDecayed(r) == Decayed(r, PE_PCT)

Filtered == call_ok.t = "df" /\ put_ok.t = "df"

\* C5: the decay filter returns exactly the rows of the selected side, in
\* their order, whose metric for that side is present and <= decay_threshold;
\* a row whose metric is absent is never returned.
C5_DecayFilterExact ==
    Filtered =>
        /\ ChainParts(call_ok) = SelectSeq(call_otm.v, CallDecayed)
        /\ ChainParts(put_ok) = SelectSeq(put_otm.v, PutDecayed)
        /\ \A i \in 1..Len(call_ok.v) : call_ok.v[i][CE_PCT].t # "nan"
        /\ \A i \in 1..Len(put_ok.v) : put_ok.v[i][PE_PCT].t # "nan"

\* The filter kept one row of a call side of two rows, the other row's
\* metric being absent, and dropped a put row whose metric is above the
\* threshold.
C5_Witness ==
    /\ Filtered
    /\ Len(call_otm.v) = 2
    /\ Len(call_ok.v) = 1
    /\ \E i \in 1..2 : call_otm.v[i][CE_PCT].t = "nan"
    /\ \E i \in 1..Len(put_otm.v) :
          put_otm.v[i][PE_PCT].t = "num" /\ put_otm.v[i][PE_PCT].v > decay_threshold

\* C10: filtering an already filtered side again, with the same column and
\* threshold, returns the same rows.
C10_DecayFilterIdempotent ==
    Filtered =>
        /\ DecayFilter(call_ok, CE_PCT, decay_threshold) = call_ok
        /\ DecayFilter(put_ok, PE_PCT, decay_threshold) = put_ok

\* The filter dropped a row, before another one it kept.
C10_Witness ==
    /\ Filtered
    /\ Len(call_otm.v) = 2
    /\ Len(call_ok.v) = 1
    /\ ChainPart(call_ok.v[1]) = call_otm.v[2]
    /\ call_otm.v[1][CE_PCT].t = "num"

MultiMode == Len(selected_symbols) > 1

\* The symbols of the rows of the frames of a list
SymbolsIn(frames) ==
    UNION {{frames[k].v[i]["Symbol"].v : i \in 1..Len(frames[k].v)} : k \in 1..Len(frames)}

\* One pass of the multi-symbol loop treated its symbol as C7 says.
C7_Pass ==
    (MultiMode /\ idx' # idx) =>
        /\ idx' = idx + 1
        /\ LET sym == selected_symbols[idx']
               added == SubSeq(all_results', Len(all_results) + 1, Len(all_results'))
           IN /\ SubSeq(all_results', 1, Len(all_results)) = all_results
              /\ close_price'.t = "none" =>
                    /\ skipped' = Append(skipped, <<sym, "close price unavailable">>)
                    /\ added = <<>>
              /\ (close_price'.t # "none" /\ (compact_df'.t = "none" \/ IsEmpty(compact_df'))) =>
                    /\ skipped' = Append(skipped, <<sym, "no option chain">>)
                    /\ added = <<>>
              /\ (close_price'.t # "none" /\ compact_df'.t = "df" /\ ~IsEmpty(compact_df')) =>
                    /\ skipped' = skipped
                    /\ SymbolsIn(added) \subseteq {sym}

\* No exception escaped, the loop ends only after the last symbol, and the
\* skipped symbols are visited ones that have no result rows.
C7_NoFatal ==
    MultiMode =>
        /\ pc # "crashed"
        /\ ~raised
        /\ idx <= Len(selected_symbols)
        /\ pc = "done" => idx = Len(selected_symbols)
        /\ Len(skipped) <= idx
        /\ \A k \in 1..Len(skipped) :
              /\ skipped[k][2] \in {"close price unavailable", "no option chain"}
              /\ skipped[k][1] \notin SymbolsIn(all_results)
              /\ \E n \in 1..idx : skipped[k][1] = selected_symbols[n]

\* C7: in the multi-symbol scan the loop visits every selected symbol once,
\* in list order; a symbol whose close price is absent or whose chain is
\* absent or empty is recorded as skipped with its reason and adds no result
\* rows; no failure ends the loop, so the symbols after it are still
\* processed.
C7_SkipAndContinue == [][C7_Pass /\ C7_NoFatal']_vars

\* The first symbol was skipped for its empty chain and the second one added
\* rows.
C7_Witness ==
    /\ pc = "done"
    /\ MultiMode
    /\ Len(skipped) >= 1
    /\ skipped[1] = <<selected_symbols[1], "no option chain">>
    /\ all_results # <<>>
    /\ SymbolsIn(all_results) = {selected_symbols[Len(selected_symbols)]}

\* A result row is on the side of the reference price its tag names, and its
\* own side's metric is present and at most the threshold.
RowAsTagged(r, close) ==
    /\ r["Side"].v \in {"CALL_OTM", "PUT_OTM"}
    /\ r["Side"].v = "CALL_OTM" => (r[STRIKE].v > close.v /\ CallDecayed(r))
    /\ r["Side"].v = "PUT_OTM" => (r[STRIKE].v < close.v /\ PutDecayed(r))

\* The rows a step adds to the results are as tagged for the reference price
\* of the symbol the step scanned; the final table holds only such rows.
C9_Step ==
    /\ (MultiMode /\ idx' # idx) =>
          \A k \in (Len(all_results) + 1)..Len(all_results') :
              \A i \in 1..Len(all_results'[k].v) :
                  RowAsTagged(all_results'[k].v[i], close_price')
    /\ (MultiMode /\ final' # final) =>
          \A i \in 1..Len(final'.v) :
              \E k \in 1..Len(all_results) : \E n \in 1..Len(all_results[k].v) :
                  final'.v[i] = all_results[k].v[n]
    /\ (~MultiMode /\ final' # final) =>
          \A i \in 1..Len(final'.v) : RowAsTagged(final'.v[i], close_price')

\* C9: every scan result row tagged CALL_OTM has strike > the symbol's
\* reference price and a present call metric <= decay_threshold, every row
\* tagged PUT_OTM has strike < the reference price and a present put metric
\* <= decay_threshold, in the single- and in the multi-symbol scan.
C9_SidesFilteredIndependently == [][C9_Step]_vars

\* Results hold a CALL_OTM row whose put metric would not pass and a PUT_OTM
\* row whose call metric would not pass.
C9_Witness ==
    /\ final.t = "df"
    /\ \E i \in 1..Len(final.v) :
          final.v[i]["Side"].v = "CALL_OTM" /\ ~PutDecayed(final.v[i])
    /\ \E i \in 1..Len(final.v) :
          final.v[i]["Side"].v = "PUT_OTM" /\ ~CallDecayed(final.v[i])

\* ------------------------------------------------ claims on the result rows
\* The columns of a result row: symbol, side, strike, the two metrics,
\* reference price and ATM strike
ResultColumnNames ==
    {"Symbol", "Side", STRIKE, CE_PCT, PE_PCT, "Close_Price", "ATM_Approx"}

\* The ATM strike of a chain for a reference price: a strike of the chain
\* that no other strike is nearer to the price than
IsAtmOf(atmStrike, chain, close) ==
    /\ atmStrike.t = "num"
    /\ \E i \in 1..Len(chain.v) : chain.v[i][STRIKE] = atmStrike
    /\ \A i \in 1..Len(chain.v) :
          Abs(atmStrike.v - close.v) <= Abs(chain.v[i][STRIKE].v - close.v)

\* A result row carries the symbol, a side, a strike, that side's metric,
\* the reference price and the ATM strike given.
CarriesResult(r, sym, close, atmStrike) ==
    /\ ResultColumnNames \subseteq DOMAIN r
    /\ r["Symbol"] = PyText(sym)
    /\ r["Side"] \in {PyText("CALL_OTM"), PyText("PUT_OTM")}
    /\ r[STRIKE].t = "num"
    /\ r["Side"] = PyText("CALL_OTM") => r[CE_PCT].t = "num"
    /\ r["Side"] = PyText("PUT_OTM") => r[PE_PCT].t = "num"
    /\ r["Close_Price"] = close
    /\ r["ATM_Approx"] = atmStrike

\* The rows a pass of the multi-symbol loop adds carry the pass's own symbol,
\* the reference price fetched for it and the ATM strike of its own chain;
\* the final table of the loop holds exactly the rows the passes added.
C11_MultiRows ==
    /\ (MultiMode /\ idx' # idx) =>
          \A k \in (Len(all_results) + 1)..Len(all_results') :
              \A i \in 1..Len(all_results'[k].v) :
                  /\ CarriesResult(all_results'[k].v[i], selected_symbols[idx'],
                                   close_price', atm')
                  /\ IsAtmOf(atm', compact_df', close_price')
    /\ (MultiMode /\ final' # final) =>
          /\ Len(final'.v) = Len(concat(all_results).v)
          /\ \A i \in 1..Len(final'.v) :
                \E k \in 1..Len(all_results) : \E n \in 1..Len(all_results[k].v) :
                    final'.v[i] = all_results[k].v[n]

\* The rows of the single-symbol scan's table carry the symbol, the
\* reference price and the ATM strike of the scanned symbol.
C11_SingleRows ==
    (~MultiMode /\ final' # final) =>
        \A i \in 1..Len(final'.v) :
            /\ CarriesResult(final'.v[i], selected_symbols[1], close_price', atm')
            /\ IsAtmOf(atm', compact_df', close_price')

\* The multi-symbol half of C11 alone
C11_MultiRowsCarryOwnSymbolData == [][C11_MultiRows]_vars

\* C11: every result row of a scan, single-symbol or multi-symbol, carries
\* the symbol, the side, the strike, the metric, the reference price and the
\* ATM strike, and in a multi-symbol scan the reference price and the ATM
\* strike of a row are those of the row's own symbol.
C11_RowsCarryOwnSymbolData == [][C11_MultiRows /\ C11_SingleRows]_vars

\* Two symbols with different reference prices and different ATM strikes
\* both have rows in the final table.
C11_MultiWitness ==
    /\ MultiMode
    /\ pc = "done"
    /\ final.t = "df"
    /\ \E i, j \in 1..Len(final.v) :
          /\ final.v[i]["Symbol"] # final.v[j]["Symbol"]
          /\ final.v[i]["Close_Price"] # final.v[j]["Close_Price"]
          /\ final.v[i]["ATM_Approx"] # final.v[j]["ATM_Approx"]

\* --------------------------------------------------- claims on fetch_oc_json
\* A request of the log whose pass of the try ended in the return of the dict
Succeeded(e) == e.ev = "request" /\ Attempt(e.outcome).ok

\* fetch_oc_json is running its body
Fetching == pc \in {"request", "sleep"}

\* The log of a call is a request, then, only after that request failed, one
\* sleep and one more request: at most 2 requests, and a sleep only between a
\* failed first attempt and the second.
C12_Log ==
    /\ Len(log) <= 3
    /\ Len(log) >= 1 => (log[1].ev = "request" /\ log[1].attempt = 0)
    /\ Len(log) >= 2 => (~Succeeded(log[1]) /\ log[2].ev = "sleep")
    /\ Len(log) >= 3 => (log[3].ev = "request" /\ log[3].attempt = 1)

\* What a call that ran the body returned: the dict of its last request,
\* which is the only one that succeeded, or None after two failed requests.
C12_Return ==
    (pc = "returned" /\ log # <<>>) =>
        /\ Len(log) \in {1, 3}
        /\ Len(log) = 1 => Succeeded(log[1])
        /\ Succeeded(log[Len(log)]) =>
              (js.t = "js" /\ js = Normalize(log[Len(log)].outcome.body).val)
        /\ js = PyNone <=> (Len(log) = 3 /\ ~Succeeded(log[1]) /\ ~Succeeded(log[3]))

\* The cache takes only the value a run of the body returned, and a call
\* that returns at once, without a request, returns the value the cache
\* holds.
C12_CacheStep ==
    /\ cache' # cache =>
          \/ cache' = NotCached
          \/ pc' = "returned" /\ log' # <<>> /\ cache' = Cached(js')
    /\ (calls' # calls /\ pc' = "returned") =>
          (cache.hit /\ log' = <<>> /\ js' = cache.value)
    /\ (calls' # calls /\ pc' # "returned") => (~cache.hit /\ log' = <<>>)

====
